---- MODULE Spec2Model ----
(***************************************************************************)
(* LightningProxLLM (langchain_lightningprox/llm.py): an orchestrator that  *)
(* sends a prompt to the Completion Service, pays the invoice of a payment  *)
(* challenge through the Settlement Service (LNBits) and re-sends the       *)
(* prompt with the charge_id as proof of payment.                           *)
(*                                                                          *)
(* One orchestrator object is constructed by the caller; NumThreads callers *)
(* then run invoke() on it concurrently.  Every blocking call of invoke     *)
(* (requests.post, time.sleep) is a point where the threads interleave, so  *)
(* an invocation is cut into one action per stretch of code between two     *)
(* blocking calls.  The two services are the environment: their answers are *)
(* drawn from small sets.                                                   *)
(***************************************************************************)
EXTENDS Integers, Sequences, FiniteSets, TLC

\* Number of callers that run invoke() on the one orchestrator.
NumThreads == 2
Threads == 1..NumThreads

(***************************************************************************)
(* Python values.  A dict is a function from its keys, so `k in d` is       *)
(* k \in DOMAIN d.  A string that is processed character-wise (a URL, a     *)
(* formatted message) is a sequence of pieces.  amount_sats holds an int    *)
(* or a str, so these two are tagged.                                       *)
(***************************************************************************)
None == "<None>"
Truthy(x) == x # None /\ x # ""
PyInt(n) == [int |-> n]
PyStr(s) == [str |-> s]
EmptyDict == <<>>
Bind(loc, name, v) == (name :> v) @@ loc

DigitChar == <<"0", "1", "2", "3", "4", "5", "6", "7", "8", "9">>

RECURSIVE IntToStr(_)
IntToStr(n) ==
    IF n < 10 THEN <<DigitChar[n + 1]>>
    ELSE IntToStr(n \div 10) \o <<DigitChar[(n % 10) + 1]>>

\* str() as an f-string applies it to amount_sats
str(v) == IF "int" \in DOMAIN v THEN IntToStr(v.int) ELSE <<v.str>>

RECURSIVE rstrip(_, _)
rstrip(s, ch) ==
    IF Len(s) > 0 /\ s[Len(s)] = ch
    THEN rstrip(SubSeq(s, 1, Len(s) - 1), ch)
    ELSE s

(***************************************************************************)
(* What the caller passes in.                                               *)
(***************************************************************************)
Prompts == {"p1", "p2"}
AdminKeys == {None, "", "key"}
DemoUrl == <<"https://demo.lnbits.com">>
LnbitsUrls == {DemoUrl, DemoUrl \o <<"/">>, DemoUrl \o <<"/", "/">>}

(***************************************************************************)
(* What the services answer.  A Completion response body is a JSON object   *)
(* with an optional "content" list and an optional "payment" object, whose  *)
(* keys are optional in turn.                                               *)
(***************************************************************************)
Text1 == [text |-> "t1"]
Text2 == [text |-> "t2"]
NoText == [type |-> "image"]
Contents == {<<>>, <<Text1>>, <<Text2, Text1>>, <<NoText>>}

PayA == [charge_id |-> "c1", payment_request |-> "lnbc1", amount_sats |-> PyInt(5)]
PayB == [charge_id |-> "c2", payment_request |-> "lnbc2", amount_sats |-> PyInt(12)]
PayC == [charge_id |-> "", payment_request |-> "lnbc3"]
PayD == [payment_request |-> "lnbc1", amount_sats |-> PyInt(5)]
PayE == [charge_id |-> "c1", amount_sats |-> PyInt(5)]
Payments == {PayA, PayC, PayD, PayE}

\* answers to the first request of an invocation
Responses ==
    {EmptyDict}
    \cup {[content |-> c] : c \in Contents}
    \cup {[payment |-> p] : p \in Payments}
    \cup {[payment |-> PayB, content |-> <<Text1>>]}

\* answers to the second request: invoke looks at "content" only, so one
\* answer without that key stands for all of them
SecondResponses ==
    {[payment |-> PayA]}
    \cup {[content |-> c] : c \in Contents \ {<<Text1>>}}

\* HTTP status codes of the Settlement Service's final response
Statuses == {200, 304, 402}

\* requests.post raises (no response); response.json() raises (body is not JSON)
PostErrors == {"ConnectionError"}
JsonErrors == {"JSONDecodeError"}

(***************************************************************************)
(* State.                                                                   *)
(***************************************************************************)
VARIABLES
    llm,        \* the constructed orchestrator (its attributes), or NoObject
    ctor,       \* the latest constructor call: its credential, what it raised
    pc,         \* per thread: where its invoke() is
    locals,     \* per thread: the local variables of invoke() bound so far
    outcome,    \* per thread: what invoke() returned or raised
    sent,       \* per thread: the HTTP requests it has sent, in order
    rcvd,       \* per thread: the answers it got, in order
    args,       \* per thread: the prompt its invoke() was called with
    gen         \* the _generate() call of the batch caller

vars == <<llm, ctor, pc, locals, outcome, sent, rcvd, args, gen>>

NoObject == <<>>
NoOutcome == [kind |-> "none"]
NoBatch == [state |-> "none"]

(***************************************************************************)
(* __init__                                                                 *)
(***************************************************************************)
\* __init__ without the credential check of lines 56-60
__init___unchecked(lnbits_url, lnbits_admin_key) ==
    [raised |-> None,
     self   |-> [lnbits_url       |-> rstrip(lnbits_url, "/"),
                 lnbits_admin_key |-> lnbits_admin_key,
                 model            |-> "claude-sonnet-4-20250514",
                 max_tokens       |-> 256,
                 api_url          |-> <<"https://lightningprox.com/v1/messages">>,
                 payment_timeout  |-> 30]]

__init__(lnbits_url, lnbits_admin_key) ==
    LET self == [lnbits_url       |-> rstrip(lnbits_url, "/"),
                 lnbits_admin_key |-> lnbits_admin_key,
                 model            |-> "claude-sonnet-4-20250514",
                 max_tokens       |-> 256,
                 api_url          |-> <<"https://lightningprox.com/v1/messages">>,
                 payment_timeout  |-> 30]
    IN  IF ~Truthy(self.lnbits_admin_key)
        THEN [raised |-> "ValueError", self |-> self]
        ELSE [raised |-> None, self |-> self]

(***************************************************************************)
(* The two outbound requests.                                               *)
(***************************************************************************)
\* _request that builds the proof header in place of the default headers
_request_replaced_headers(self, messages, payment_hash) ==
    LET headers == IF Truthy(payment_hash)
                   THEN ("X-Payment-Hash" :> payment_hash)
                   ELSE ("Content-Type" :> "application/json")
        payload == [model      |-> self.model,
                    max_tokens |-> self.max_tokens,
                    messages   |-> messages]
    IN  [url |-> self.api_url, json |-> payload, headers |-> headers]

_request(self, messages, payment_hash) ==
    LET headers == IF Truthy(payment_hash)
                   THEN ("Content-Type" :> "application/json")
                            @@ ("X-Payment-Hash" :> payment_hash)
                   ELSE ("Content-Type" :> "application/json")
        payload == [model      |-> self.model,
                    max_tokens |-> self.max_tokens,
                    messages   |-> messages]
    IN  [url |-> self.api_url, json |-> payload, headers |-> headers]

_pay_invoice(self, payment_request) ==
    [url     |-> self.lnbits_url \o <<"/api/v1/payments">>,
     headers |-> ("Content-Type" :> "application/json")
                     @@ ("X-Api-Key" :> self.lnbits_admin_key),
     json    |-> [out |-> TRUE, bolt11 |-> payment_request]]

\* requests.Response.ok: raise_for_status() raises for 400 <= status < 600 only
ok(status_code) == ~(400 <= status_code /\ status_code < 600)

(***************************************************************************)
(* invoke(), one operator per stretch of code between two blocking calls.   *)
(* Each yields the next position, the locals, the outcome and the request   *)
(* it sends.                                                                *)
(***************************************************************************)
\* return / raise end the call: the frame with its locals is gone
Return(loc, v) ==
    [pc |-> "done", locals |-> EmptyDict, send |-> <<>>,
     outcome |-> [kind |-> "return", value |-> v]]

Raise(loc, type, msg) ==
    [pc |-> "failed", locals |-> EmptyDict, send |-> <<>>,
     outcome |-> [kind |-> "raise", type |-> type, msg |-> msg]]

Call(loc, next, req) ==
    [pc |-> next, locals |-> loc, send |-> <<req>>, outcome |-> NoOutcome]

Block(loc, next) ==
    [pc |-> next, locals |-> loc, send |-> <<>>, outcome |-> NoOutcome]

\* result["content"][0]["text"]
first_text(loc, result) ==
    IF Len(result.content) = 0
    THEN Raise(loc, "IndexError", <<"list index out of range">>)
    ELSE IF "text" \notin DOMAIN result.content[1]
    THEN Raise(loc, "KeyError", <<"text">>)
    ELSE Return(loc, result.content[1].text)

\* lines 114-117: build the messages, send the first request
invoke_begin(self, prompt) ==
    LET messages == <<[role |-> "user", content |-> prompt]>>
        loc == Bind(Bind(EmptyDict, "prompt", prompt), "messages", messages)
    IN  Call(loc, "await1", _request(self, messages, None))

\* invoke that returns an empty text for a response with neither key
invoke_first_lenient(self, loc, result) ==
    LET l1 == Bind(loc, "result", result)
    IN  IF "payment" \notin DOMAIN result
        THEN IF "content" \in DOMAIN result
             THEN first_text(l1, result)
             ELSE Return(l1, "")
        ELSE LET payment == result.payment
                 l2 == Bind(l1, "payment", payment)
             IN  IF "charge_id" \notin DOMAIN payment
                 THEN Raise(l2, "KeyError", <<"charge_id">>)
                 ELSE IF "payment_request" \notin DOMAIN payment
                 THEN Raise(l2, "KeyError", <<"payment_request">>)
                 ELSE Call(Bind(Bind(Bind(l2,
                                "charge_id", payment.charge_id),
                                "payment_request", payment.payment_request),
                                "amount_sats",
                                IF "amount_sats" \in DOMAIN payment
                                THEN payment.amount_sats ELSE PyStr("?")),
                           "settling",
                           _pay_invoice(self, payment.payment_request))

\* invoke that reads charge_id with .get(), so pays a challenge without one
invoke_first_pays_without_charge_id(self, loc, result) ==
    LET l1 == Bind(loc, "result", result)
    IN  IF "payment" \notin DOMAIN result
        THEN IF "content" \in DOMAIN result
             THEN first_text(l1, result)
             ELSE Raise(l1, "RuntimeError", <<"Unexpected response: ", result>>)
        ELSE LET payment == result.payment
                 l2 == Bind(l1, "payment", payment)
             IN  IF "payment_request" \notin DOMAIN payment
                 THEN Raise(l2, "KeyError", <<"payment_request">>)
                 ELSE Call(Bind(Bind(Bind(l2,
                                "charge_id",
                                IF "charge_id" \in DOMAIN payment
                                THEN payment.charge_id ELSE None),
                                "payment_request", payment.payment_request),
                                "amount_sats",
                                IF "amount_sats" \in DOMAIN payment
                                THEN payment.amount_sats ELSE PyStr("?")),
                           "settling",
                           _pay_invoice(self, payment.payment_request))

\* invoke whose amount_sats defaults to 0 instead of "?"
invoke_first_zero_amount(self, loc, result) ==
    LET l1 == Bind(loc, "result", result)
    IN  IF "payment" \notin DOMAIN result
        THEN IF "content" \in DOMAIN result
             THEN first_text(l1, result)
             ELSE Raise(l1, "RuntimeError", <<"Unexpected response: ", result>>)
        ELSE LET payment == result.payment
                 l2 == Bind(l1, "payment", payment)
             IN  IF "charge_id" \notin DOMAIN payment
                 THEN Raise(l2, "KeyError", <<"charge_id">>)
                 ELSE IF "payment_request" \notin DOMAIN payment
                 THEN Raise(l2, "KeyError", <<"payment_request">>)
                 ELSE Call(Bind(Bind(Bind(l2,
                                "charge_id", payment.charge_id),
                                "payment_request", payment.payment_request),
                                "amount_sats",
                                IF "amount_sats" \in DOMAIN payment
                                THEN payment.amount_sats ELSE PyInt(0)),
                           "settling",
                           _pay_invoice(self, payment.payment_request))

\* lines 117-131: the first response, up to the settlement request
invoke_first(self, loc, result) ==
    LET l1 == Bind(loc, "result", result)
    IN  IF "payment" \notin DOMAIN result
        THEN IF "content" \in DOMAIN result
             THEN first_text(l1, result)
             ELSE Raise(l1, "RuntimeError", <<"Unexpected response: ", result>>)
        ELSE LET payment == result.payment
                 l2 == Bind(l1, "payment", payment)
             IN  IF "charge_id" \notin DOMAIN payment
                 THEN Raise(l2, "KeyError", <<"charge_id">>)
                 ELSE IF "payment_request" \notin DOMAIN payment
                 THEN Raise(Bind(l2, "charge_id", payment.charge_id),
                            "KeyError", <<"payment_request">>)
                 ELSE LET amount_sats ==
                              IF "amount_sats" \in DOMAIN payment
                              THEN payment.amount_sats
                              ELSE PyStr("?")
                          l3 == Bind(Bind(Bind(l2,
                                    "charge_id", payment.charge_id),
                                    "payment_request", payment.payment_request),
                                    "amount_sats", amount_sats)
                      IN  Call(l3, "settling",
                               _pay_invoice(self, payment.payment_request))

\* invoke that goes on to the retry whatever _pay_invoice returned
invoke_paid_unchecked(self, loc, paid) == Block(loc, "sleeping")

\* invoke that sends the second request without sleeping
invoke_paid_no_sleep(self, loc, paid) ==
    IF ~paid
    THEN Raise(loc, "RuntimeError",
               <<"Payment failed for ">> \o str(loc.amount_sats) \o <<" sats">>)
    ELSE Call(loc, "await2", _request(self, loc.messages, loc.charge_id))

\* invoke that waits for a confirmation nothing delivers
invoke_paid_waits(self, loc, paid) ==
    IF ~paid
    THEN Raise(loc, "RuntimeError",
               <<"Payment failed for ">> \o str(loc.amount_sats) \o <<" sats">>)
    ELSE Block(loc, "confirming")

\* lines 131-136: the settlement's answer, up to the sleep
invoke_paid(self, loc, paid) ==
    IF ~paid
    THEN Raise(loc, "RuntimeError",
               <<"Payment failed for ">> \o str(loc.amount_sats) \o <<" sats">>)
    ELSE Block(loc, "sleeping")

\* line 138: after the sleep, send the second request
invoke_retry(self, loc) ==
    Call(loc, "await2", _request(self, loc.messages, loc.charge_id))

\* invoke that pays the invoice of a second challenge
invoke_final_repay(self, loc, result) ==
    LET l1 == Bind(loc, "result", result)
    IN  IF "content" \in DOMAIN result /\ Len(result.content) > 0
        THEN first_text(l1, result)
        ELSE IF "payment" \in DOMAIN result
                /\ "payment_request" \in DOMAIN result.payment
        THEN Call(l1, "settling", _pay_invoice(self, result.payment.payment_request))
        ELSE Raise(l1, "RuntimeError", <<"No response after payment: ", result>>)

\* invoke that returns the last content item's text
invoke_final_last(self, loc, result) ==
    LET l1 == Bind(loc, "result", result)
    IN  IF "content" \in DOMAIN result /\ Len(result.content) > 0
        THEN IF "text" \notin DOMAIN result.content[Len(result.content)]
             THEN Raise(l1, "KeyError", <<"text">>)
             ELSE Return(l1, result.content[Len(result.content)].text)
        ELSE Raise(l1, "RuntimeError", <<"No response after payment: ", result>>)

\* invoke without the length check of line 140
invoke_final_unguarded(self, loc, result) ==
    LET l1 == Bind(loc, "result", result)
    IN  IF "content" \in DOMAIN result
        THEN first_text(l1, result)
        ELSE Raise(l1, "RuntimeError", <<"No response after payment: ", result>>)

\* invoke that sends the proof once more when the paid response has no content
invoke_final_resend(self, loc, result) ==
    LET l1 == Bind(loc, "result", result)
    IN  IF "content" \in DOMAIN result /\ Len(result.content) > 0
        THEN first_text(l1, result)
        ELSE IF "payment" \in DOMAIN loc.result
        THEN Call(l1, "await2", _request(self, loc.messages, loc.charge_id))
        ELSE Raise(l1, "RuntimeError", <<"No response after payment: ", result>>)

\* lines 138-143: the second response
invoke_final(self, loc, result) ==
    LET l1 == Bind(loc, "result", result)
    IN  IF "content" \in DOMAIN result /\ Len(result.content) > 0
        THEN first_text(l1, result)
        ELSE Raise(l1, "RuntimeError", <<"No response after payment: ", result>>)

\* a blocking call raised: the exception leaves invoke() as it is
propagate(loc, exc) == Raise(loc, exc, <<>>)

(***************************************************************************)
(* Actions.                                                                 *)
(***************************************************************************)
Init ==
    /\ llm = NoObject
    /\ ctor = [called |-> FALSE]
    /\ pc = [i \in Threads |-> "idle"]
    /\ locals = [i \in Threads |-> EmptyDict]
    /\ outcome = [i \in Threads |-> NoOutcome]
    /\ sent = [i \in Threads |-> <<>>]
    /\ rcvd = [i \in Threads |-> <<>>]
    /\ args = [i \in Threads |-> None]
    /\ gen = NoBatch

\* LightningProxLLM(lnbits_url=..., lnbits_admin_key=...)
Construct(lnbits_url, lnbits_admin_key) ==
    /\ llm = NoObject
    /\ LET r == __init__(lnbits_url, lnbits_admin_key)
       IN  /\ ctor' = [called |-> TRUE, lnbits_admin_key |-> lnbits_admin_key,
                       raised |-> r.raised]
           /\ llm' = IF r.raised = None THEN r.self ELSE NoObject
    /\ UNCHANGED <<pc, locals, outcome, sent, rcvd, args, gen>>

\* thread i moves on as step says, having got the answers in got
Advance(i, step, got) ==
    /\ pc' = [pc EXCEPT ![i] = step.pc]
    /\ locals' = [locals EXCEPT ![i] = step.locals]
    /\ outcome' = [outcome EXCEPT ![i] = step.outcome]
    /\ sent' = [sent EXCEPT ![i] = @ \o step.send]
    /\ rcvd' = [rcvd EXCEPT ![i] = @ \o got]
    /\ UNCHANGED <<llm, ctor, gen>>

Invoke(i, prompt) ==
    /\ llm # NoObject
    /\ pc[i] = "idle"
    /\ args' = [args EXCEPT ![i] = prompt]
    /\ Advance(i, invoke_begin(llm, prompt), <<>>)

FirstResponse(i, result) ==
    /\ pc[i] = "await1"
    /\ Advance(i, invoke_first(llm, locals[i], result), <<[json |-> result]>>)
    /\ UNCHANGED args

FirstRequestFails(i, exc) ==
    /\ pc[i] = "await1"
    /\ Advance(i, propagate(locals[i], exc), <<[exc |-> exc]>>)
    /\ UNCHANGED args

SettlementResponse(i, status_code) ==
    /\ pc[i] = "settling"
    /\ Advance(i, invoke_paid(llm, locals[i], ok(status_code)),
               <<[status_code |-> status_code]>>)
    /\ UNCHANGED args

SettlementRequestFails(i, exc) ==
    /\ pc[i] = "settling"
    /\ Advance(i, propagate(locals[i], exc), <<[exc |-> exc]>>)
    /\ UNCHANGED args

\* invoke that keeps charge_id in an attribute of self, which all callers write
SleepEnds_shared_charge_id(i) ==
    /\ pc[i] = "sleeping"
    /\ \E j \in Threads :
          /\ "charge_id" \in DOMAIN locals[j]
          /\ Advance(i, invoke_retry(llm,
                        Bind(locals[i], "charge_id", locals[j].charge_id)), <<>>)
    /\ UNCHANGED args

SleepEnds(i) ==
    /\ pc[i] = "sleeping"
    /\ Advance(i, invoke_retry(llm, locals[i]), <<>>)
    /\ UNCHANGED args

SecondResponse(i, result) ==
    /\ pc[i] = "await2"
    /\ Advance(i, invoke_final(llm, locals[i], result), <<[json |-> result]>>)
    /\ UNCHANGED args

SecondRequestFails(i, exc) ==
    /\ pc[i] = "await2"
    /\ Advance(i, propagate(locals[i], exc), <<[exc |-> exc]>>)
    /\ UNCHANGED args

Next ==
    \/ \E u \in LnbitsUrls, k \in AdminKeys : Construct(u, k)
    \/ \E i \in Threads, p \in Prompts : Invoke(i, p)
    \/ \E i \in Threads, r \in Responses : FirstResponse(i, r)
    \/ \E i \in Threads, e \in PostErrors \cup JsonErrors : FirstRequestFails(i, e)
    \/ \E i \in Threads, s \in Statuses : SettlementResponse(i, s)
    \/ \E i \in Threads, e \in PostErrors : SettlementRequestFails(i, e)
    \/ \E i \in Threads : SleepEnds(i)
    \/ \E i \in Threads, r \in SecondResponses : SecondResponse(i, r)
    \/ \E i \in Threads, e \in PostErrors : SecondRequestFails(i, e)

Spec == Init /\ [][Next]_vars

\* requests.post of thread i's pending request returns or raises
Answered(i) ==
    \/ \E r \in Responses : FirstResponse(i, r)
    \/ \E e \in PostErrors \cup JsonErrors : FirstRequestFails(i, e)
    \/ \E s \in Statuses : SettlementResponse(i, s)
    \/ \E e \in PostErrors : SettlementRequestFails(i, e)
    \/ \E r \in SecondResponses : SecondResponse(i, r)
    \/ \E e \in PostErrors : SecondRequestFails(i, e)

\* every pending request is answered and time.sleep(0.5) returns
FairSpec ==
    /\ Spec
    /\ \A i \in Threads : WF_vars(Answered(i)) /\ WF_vars(SleepEnds(i))

(***************************************************************************)
(* _generate(prompts): one thread runs invoke() for each prompt of a list.  *)
(* gen holds the call: its prompts, the list under construction, what the   *)
(* caller gets, and the history of the invoke() calls it made (the prompt   *)
(* passed, the number of requests sent before, how the call ended).         *)
(***************************************************************************)
MaxBatch == 3
Caller == 1
PromptLists == UNION {[1..n -> Prompts] : n \in 0..MaxBatch}

\* the positions at which invoke() is over
Terminal == {"done", "failed"}

\* lines 154-156: the comprehension before an element, or at the end of prompts
_generate_loop(g) ==
    IF Len(g.results) < Len(g.prompts)
    THEN g
    ELSE [g EXCEPT !.state = "returned",
                   !.outcome = [kind |-> "return", value |-> g.results]]

\* line 156: _generate is called
_generate(self, prompts) ==
    _generate_loop([state |-> "running", prompts |-> prompts, results |-> <<>>,
                    outcome |-> NoOutcome,
                    called |-> <<>>, marks |-> <<>>, ended |-> <<>>])

\* _generate that puts None for a failed invocation and goes on
_generate_next_swallow(g, o) ==
    _generate_loop([g EXCEPT !.results =
                       Append(@, IF o.kind = "raise" THEN None ELSE o.value)])

\* line 156: invoke() has returned a text or raised
_generate_next(g, o) ==
    IF o.kind = "raise"
    THEN [g EXCEPT !.state = "raised", !.outcome = o]
    ELSE _generate_loop([g EXCEPT !.results = Append(@, o.value)])

\* the comprehension goes on from g: the next invoke() begins, or the call is over
Iterate(g, last, got) ==
    /\ IF g.state = "running"
       THEN LET prompt == g.prompts[Len(g.results) + 1]
                step == invoke_begin(llm, prompt)
            IN  /\ gen' = [g EXCEPT !.called = Append(@, prompt),
                                    !.marks = Append(@, Len(sent[Caller]))]
                /\ args' = [args EXCEPT ![Caller] = prompt]
                /\ pc' = [pc EXCEPT ![Caller] = step.pc]
                /\ locals' = [locals EXCEPT ![Caller] = step.locals]
                /\ outcome' = [outcome EXCEPT ![Caller] = step.outcome]
                /\ sent' = [sent EXCEPT ![Caller] = @ \o last.send \o step.send]
       ELSE /\ gen' = g
            /\ pc' = [pc EXCEPT ![Caller] = last.pc]
            /\ locals' = [locals EXCEPT ![Caller] = last.locals]
            /\ outcome' = [outcome EXCEPT ![Caller] = last.outcome]
            /\ sent' = [sent EXCEPT ![Caller] = @ \o last.send]
            /\ UNCHANGED args
    /\ rcvd' = [rcvd EXCEPT ![Caller] = @ \o got]
    /\ UNCHANGED <<llm, ctor>>

\* the running invoke() moves on as step says; when it ends, so does the element
BatchStep(step, got) ==
    IF step.pc \in Terminal
    THEN Iterate(_generate_next([gen EXCEPT !.ended = Append(@, step.outcome)],
                                step.outcome),
                 step, got)
    ELSE Advance(Caller, step, got) /\ UNCHANGED args

Generate(prompts) ==
    /\ llm # NoObject
    /\ gen = NoBatch
    /\ pc[Caller] = "idle"
    /\ Iterate(_generate(llm, prompts), Block(EmptyDict, "idle"), <<>>)

BatchFirstResponse(result) ==
    /\ gen.state = "running"
    /\ pc[Caller] = "await1"
    /\ BatchStep(invoke_first(llm, locals[Caller], result), <<[json |-> result]>>)

BatchFirstRequestFails(exc) ==
    /\ gen.state = "running"
    /\ pc[Caller] = "await1"
    /\ BatchStep(propagate(locals[Caller], exc), <<[exc |-> exc]>>)

BatchSettlementResponse(status_code) ==
    /\ gen.state = "running"
    /\ pc[Caller] = "settling"
    /\ BatchStep(invoke_paid(llm, locals[Caller], ok(status_code)),
                 <<[status_code |-> status_code]>>)

BatchSettlementRequestFails(exc) ==
    /\ gen.state = "running"
    /\ pc[Caller] = "settling"
    /\ BatchStep(propagate(locals[Caller], exc), <<[exc |-> exc]>>)

BatchSleepEnds ==
    /\ gen.state = "running"
    /\ pc[Caller] = "sleeping"
    /\ BatchStep(invoke_retry(llm, locals[Caller]), <<>>)

BatchSecondResponse(result) ==
    /\ gen.state = "running"
    /\ pc[Caller] = "await2"
    /\ BatchStep(invoke_final(llm, locals[Caller], result), <<[json |-> result]>>)

BatchSecondRequestFails(exc) ==
    /\ gen.state = "running"
    /\ pc[Caller] = "await2"
    /\ BatchStep(propagate(locals[Caller], exc), <<[exc |-> exc]>>)

GenNext ==
    \/ \E u \in LnbitsUrls, k \in AdminKeys : Construct(u, k)
    \/ \E prompts \in PromptLists : Generate(prompts)
    \/ \E r \in Responses : BatchFirstResponse(r)
    \/ \E e \in PostErrors \cup JsonErrors : BatchFirstRequestFails(e)
    \/ \E s \in Statuses : BatchSettlementResponse(s)
    \/ \E e \in PostErrors : BatchSettlementRequestFails(e)
    \/ BatchSleepEnds
    \/ \E r \in SecondResponses : BatchSecondResponse(r)
    \/ \E e \in PostErrors : BatchSecondRequestFails(e)

GenSpec == Init /\ [][GenNext]_vars

(***************************************************************************)
(* Vocabulary of the properties.                                            *)
(***************************************************************************)
IsCompletionReq(req) == req.url = llm.api_url
IsSettlementReq(req) == req.url = llm.lnbits_url \o <<"/api/v1/payments">>
CompletionReqs(i) == SelectSeq(sent[i], IsCompletionReq)
SettlementReqs(i) == SelectSeq(sent[i], IsSettlementReq)
HasProof(req) == "X-Payment-Hash" \in DOMAIN req.headers
ProofReqs(i) == SelectSeq(CompletionReqs(i), HasProof)

\* the k-th answer thread i got is a Completion response body / an HTTP status
GotJson(i, k) == Len(rcvd[i]) >= k /\ "json" \in DOMAIN rcvd[i][k]
GotStatus(i, k) == Len(rcvd[i]) >= k /\ "status_code" \in DOMAIN rcvd[i][k]

\* a body that carries a PaymentChallenge; one whose first content item has a text
IsChallenge(body) == "payment" \in DOMAIN body
HasText(body) ==
    /\ "content" \in DOMAIN body
    /\ Len(body.content) > 0
    /\ "text" \in DOMAIN body.content[1]
FirstText(body) == body.content[1].text

\* a challenge from which both the invoice and the proof token can be read
Payable(body) ==
    /\ IsChallenge(body)
    /\ "charge_id" \in DOMAIN body.payment
    /\ "payment_request" \in DOMAIN body.payment

\* success as the claims word it: a 2xx status
Success2xx(status_code) == 200 <= status_code /\ status_code <= 299

\* the failures of the error taxonomy, as the code raises them
ConfigurationError == "ValueError"
IsPaymentError(o) ==
    /\ o.kind = "raise"
    /\ o.type = "RuntimeError"
    /\ o.msg[1] = "Payment failed for "
IsProtocolError(o) ==
    /\ o.kind = "raise"
    /\ o.type = "RuntimeError"
    /\ o.msg[1] \in {"Unexpected response: ", "No response after payment: "}

(***************************************************************************)
(* C1: in every invocation, a Completion request carries X-Payment-Hash     *)
(* only if, when it is sent, an earlier Settlement request of the same      *)
(* invocation has been answered with success, and that Settlement request   *)
(* paid the payment_request of the challenge whose charge_id is the value   *)
(* sent; the first Completion request carries no proof.                     *)
(***************************************************************************)
SettledFor(i, charge_id) ==
    \E j \in 1..Len(sent[i]), m \in 1..Len(rcvd[i]) :
        /\ m < j
        /\ IsSettlementReq(sent[i][j])
        /\ GotStatus(i, j)
        /\ ok(rcvd[i][j].status_code)
        /\ GotJson(i, m)
        /\ Payable(rcvd[i][m].json)
        /\ rcvd[i][m].json.payment.payment_request = sent[i][j].json.bolt11
        /\ rcvd[i][m].json.payment.charge_id = charge_id

AtMostTwoAndOne ==
    \A i \in Threads :
        /\ Len(CompletionReqs(i)) <= 2
        /\ Len(SettlementReqs(i)) <= 1

TwoAndOneSent ==
    \E i \in Threads :
        /\ pc[i] \in Terminal
        /\ Len(CompletionReqs(i)) = 2
        /\ Len(SettlementReqs(i)) = 1
        /\ Len(rcvd[i]) = 3

(***************************************************************************)
(* C3: if the first Completion response carries content, invoke returns the *)
(* text of its first content item and sends neither a Settlement request    *)
(* nor a second Completion request; a Settlement request is sent only when  *)
(* the first response carries a PaymentChallenge and no content.            *)
(***************************************************************************)
ContentFirstNoSettlement ==
    \A i \in Threads :
        /\ (GotJson(i, 1) /\ HasText(rcvd[i][1].json)) =>
              /\ outcome[i] = [kind |-> "return", value |-> FirstText(rcvd[i][1].json)]
              /\ Len(sent[i]) = 1
        /\ Len(SettlementReqs(i)) > 0 =>
              /\ GotJson(i, 1)
              /\ IsChallenge(rcvd[i][1].json)
              /\ "content" \notin DOMAIN rcvd[i][1].json

(***************************************************************************)
(* C4: if the first response is a PaymentChallenge, the settlement succeeds *)
(* and the second response carries content, invoke returns the text of the  *)
(* second response's first content item, and exactly one Settlement request *)
(* was sent, for the payment_request of that challenge.                     *)
(***************************************************************************)
PaidPath(i) ==
    /\ GotJson(i, 1) /\ IsChallenge(rcvd[i][1].json)
    /\ GotStatus(i, 2) /\ ok(rcvd[i][2].status_code)
    /\ GotJson(i, 3) /\ HasText(rcvd[i][3].json)

PaidPathReturnsSecondText ==
    \A i \in Threads :
        PaidPath(i) =>
            /\ pc[i] = "done"
            /\ outcome[i] = [kind |-> "return", value |-> FirstText(rcvd[i][3].json)]
            /\ Len(SettlementReqs(i)) = 1
            /\ SettlementReqs(i)[1].json.bolt11
                   = rcvd[i][1].json.payment.payment_request

PaidPathTaken ==
    \E i \in Threads :
        /\ PaidPath(i)
        /\ rcvd[i][1].json = [payment |-> PayB, content |-> <<Text1>>]
        /\ rcvd[i][3].json = [content |-> <<Text2, Text1>>]

(***************************************************************************)
(* C5: if the Settlement Service answers with a non-2xx status, invoke      *)
(* fails with a PaymentError, and the invocation sends no second Completion *)
(* request and no second Settlement request.                                *)
(***************************************************************************)
Non2xxIsPaymentError ==
    \A i \in Threads :
        (GotStatus(i, 2) /\ ~Success2xx(rcvd[i][2].status_code)) =>
            /\ pc[i] = "failed"
            /\ IsPaymentError(outcome[i])
            /\ Len(CompletionReqs(i)) = 1
            /\ Len(SettlementReqs(i)) = 1

(***************************************************************************)
(* C6: if the second Completion response has no non-empty content list (a   *)
(* second PaymentChallenge included), invoke fails with a ProtocolError and *)
(* sends no further Settlement request and no third Completion request.     *)
(***************************************************************************)
LacksContent(body) == ~("content" \in DOMAIN body /\ Len(body.content) > 0)

NoContentAfterPaymentIsProtocolError ==
    \A i \in Threads :
        (GotJson(i, 3) /\ LacksContent(rcvd[i][3].json)) =>
            /\ pc[i] = "failed"
            /\ IsProtocolError(outcome[i])
            /\ outcome[i].msg = <<"No response after payment: ", rcvd[i][3].json>>
            /\ Len(SettlementReqs(i)) = 1
            /\ Len(CompletionReqs(i)) = 2

SecondChallengeAfterPayment ==
    /\ \E i \in Threads :
          /\ GotJson(i, 3)
          /\ rcvd[i][3].json = [payment |-> PayA]
          /\ pc[i] = "failed"
    /\ \E i \in Threads :
          /\ GotJson(i, 3)
          /\ rcvd[i][3].json = [content |-> <<>>]
          /\ pc[i] = "failed"

(***************************************************************************)
(* C7: whenever the settlement of a challenge succeeds, exactly one second  *)
(* Completion request is sent, and it carries X-Payment-Hash with the       *)
(* challenge's charge_id, whatever string that charge_id is.                *)
(***************************************************************************)
SettledThenProofSent ==
    \A i \in Threads :
        (/\ GotStatus(i, 2)
         /\ Success2xx(rcvd[i][2].status_code)
         /\ pc[i] \in {"await2"} \cup Terminal) =>
            /\ Len(CompletionReqs(i)) = 2
            /\ HasProof(CompletionReqs(i)[2])
            /\ CompletionReqs(i)[2].headers["X-Payment-Hash"]
                   = rcvd[i][1].json.payment.charge_id

(***************************************************************************)
(* C8: a second Completion request has the model, max_tokens and messages   *)
(* of the first request of its invocation, and goes to the same URL; apart  *)
(* from the X-Payment-Hash header the two requests are equal.               *)
(***************************************************************************)
WithoutProof(headers) ==
    [h \in DOMAIN headers \ {"X-Payment-Hash"} |-> headers[h]]

SecondRequestEqualsFirst ==
    \A i \in Threads :
        Len(CompletionReqs(i)) >= 2 =>
            LET first == CompletionReqs(i)[1]
                second == CompletionReqs(i)[2]
            IN  /\ second.json.model = first.json.model
                /\ second.json.max_tokens = first.json.max_tokens
                /\ second.json.messages = first.json.messages
                /\ second.json = first.json
                /\ second.url = first.url
                /\ WithoutProof(second.headers) = first.headers

SecondRequestSent ==
    \E i \in Threads :
        /\ Len(CompletionReqs(i)) = 2
        /\ HasProof(CompletionReqs(i)[2])
        /\ CompletionReqs(i)[2].json.messages = <<[role |-> "user", content |-> "p2"]>>

(***************************************************************************)
(* C9 as stated: over all invocations on the orchestrator, a charge_id      *)
(* value is sent as X-Payment-Hash at most once.                            *)
(***************************************************************************)
ChargeIds == {p.charge_id : p \in {q \in Payments \cup {PayB} : "charge_id" \in DOMAIN q}}

ProofsOf(charge_id) ==
    UNION {{<<i, k>> : k \in {n \in 1..Len(sent[i]) :
                                /\ IsCompletionReq(sent[i][n])
                                /\ HasProof(sent[i][n])
                                /\ sent[i][n].headers["X-Payment-Hash"] = charge_id}}
           : i \in Threads}

ChargeIdSentOnceOverall ==
    \A c \in ChargeIds : Cardinality(ProofsOf(c)) <= 1

(***************************************************************************)
(* C9 as amended: within one invocation at most one Completion request      *)
(* carries X-Payment-Hash, and no charge_id value is sent as proof more     *)
(* often than the Completion Service issued it in the challenges that       *)
(* opened invocations.                                                      *)
(***************************************************************************)
IssuedTo(charge_id) ==
    {i \in Threads :
        /\ GotJson(i, 1)
        /\ Payable(rcvd[i][1].json)
        /\ rcvd[i][1].json.payment.charge_id = charge_id}

ChargeIdSentOncePerChallenge ==
    /\ \A i \in Threads : Len(ProofReqs(i)) <= 1
    /\ \A c \in ChargeIds :
           Cardinality(ProofsOf(c)) <= Cardinality(IssuedTo(c))

SameChargeIdSentTwice ==
    /\ Cardinality(ProofsOf("c1")) = 2
    /\ Cardinality(IssuedTo("c1")) = 2

(***************************************************************************)
(* C10: a constructor call without a settlement credential                  *)
(* (lnbits_admin_key None or empty) raises ConfigurationError and yields no *)
(* orchestrator, before any request is sent; an invocation only ever runs   *)
(* on an orchestrator that has the credential.                              *)
(***************************************************************************)
NoCredentialNoOrchestrator ==
    /\ (ctor.called /\ ~Truthy(ctor.lnbits_admin_key)) =>
          /\ ctor.raised = ConfigurationError
          /\ llm = NoObject
    /\ llm = NoObject =>
          \A i \in Threads : pc[i] = "idle" /\ sent[i] = <<>>
    /\ llm # NoObject => Truthy(llm.lnbits_admin_key)
    /\ \A i \in Threads : \A k \in 1..Len(sent[i]) :
          IsSettlementReq(sent[i][k]) => Truthy(sent[i][k].headers["X-Api-Key"])

ConstructionRefused ==
    /\ ctor.called
    /\ ctor.lnbits_admin_key = ""
    /\ ctor.raised = ConfigurationError
    /\ llm = NoObject

(***************************************************************************)
(* C11: if the first Completion response carries neither content nor a     *)
(* PaymentChallenge, invoke fails with a ProtocolError and sends neither a  *)
(* Settlement request nor a second Completion request.                      *)
(***************************************************************************)
NeitherKey(body) == "content" \notin DOMAIN body /\ "payment" \notin DOMAIN body

UnexpectedShapeIsProtocolError ==
    \A i \in Threads :
        (GotJson(i, 1) /\ NeitherKey(rcvd[i][1].json)) =>
            /\ pc[i] = "failed"
            /\ IsProtocolError(outcome[i])
            /\ outcome[i].msg = <<"Unexpected response: ", rcvd[i][1].json>>
            /\ Len(sent[i]) = 1
            /\ Len(SettlementReqs(i)) = 0

UnexpectedShapeReceived ==
    \E i \in Threads :
        /\ rcvd[i] = <<[json |-> EmptyDict]>>
        /\ pc[i] = "failed"
        /\ Len(sent[i]) = 1

(***************************************************************************)
(* C12: an invocation that does not return a completion text fails with a   *)
(* PaymentError or with a ProtocolError (stated here of the invocations     *)
(* whose requests were all answered with a JSON body or a status); in       *)
(* particular a first response with an empty content list, and a challenge  *)
(* without charge_id or payment_request, give a ProtocolError.              *)
(***************************************************************************)
AllAnswered(i) == \A k \in 1..Len(rcvd[i]) : "exc" \notin DOMAIN rcvd[i][k]

FailuresArePaymentOrProtocolErrors ==
    \A i \in Threads :
        /\ (pc[i] = "failed" /\ AllAnswered(i)) =>
              (IsPaymentError(outcome[i]) \/ IsProtocolError(outcome[i]))
        /\ (GotJson(i, 1) /\ rcvd[i][1].json = [content |-> <<>>]) =>
              IsProtocolError(outcome[i])
        /\ (GotJson(i, 1) /\ IsChallenge(rcvd[i][1].json)
                /\ ~Payable(rcvd[i][1].json)) =>
              IsProtocolError(outcome[i])

(***************************************************************************)
(* C13: if the settlement request fails at the network level (no HTTP       *)
(* response), invoke fails with a PaymentError, sends no second Completion  *)
(* request and does not retry the payment.                                  *)
(***************************************************************************)
SettlementNetworkFailureIsPaymentError ==
    \A i \in Threads :
        (Len(rcvd[i]) >= 2 /\ "exc" \in DOMAIN rcvd[i][2]) =>
            /\ pc[i] = "failed"
            /\ IsPaymentError(outcome[i])
            /\ Len(CompletionReqs(i)) = 1
            /\ Len(SettlementReqs(i)) = 1

(***************************************************************************)
(* C17: the PaymentError that invoke raises when the settlement is refused  *)
(* carries the amount_sats of the challenge of its own invocation, and the  *)
(* marker "?" when that challenge states no amount_sats.                    *)
(***************************************************************************)
Decimal == (5 :> <<"5">>) @@ (12 :> <<"1", "2">>)

AmountText(payment) ==
    IF "amount_sats" \in DOMAIN payment
    THEN Decimal[payment.amount_sats.int]
    ELSE <<"?">>

PaymentErrorCarriesOwnAmount ==
    \A i \in Threads :
        /\ (GotStatus(i, 2) /\ ~ok(rcvd[i][2].status_code)) =>
              IsPaymentError(outcome[i])
        /\ IsPaymentError(outcome[i]) =>
              /\ GotJson(i, 1)
              /\ Payable(rcvd[i][1].json)
              /\ outcome[i].msg = <<"Payment failed for ">>
                                     \o AmountText(rcvd[i][1].json.payment)
                                     \o <<" sats">>

PaymentErrorsWithAndWithoutAmount ==
    /\ \E i \in Threads : /\ IsPaymentError(outcome[i])
                          /\ outcome[i].msg = <<"Payment failed for ", "?", " sats">>
    /\ \E i \in Threads : /\ IsPaymentError(outcome[i])
                          /\ outcome[i].msg = <<"Payment failed for ", "1", "2", " sats">>

(***************************************************************************)
(* C18: if the PaymentChallenge of the first response lacks charge_id or    *)
(* payment_request, the invocation fails without a request to the           *)
(* Settlement Service; a Settlement request is only ever sent for a         *)
(* challenge that has both.                                                 *)
(***************************************************************************)
UnpayableChallengeNeverSettled ==
    \A i \in Threads :
        /\ (GotJson(i, 1) /\ IsChallenge(rcvd[i][1].json)
                /\ ~Payable(rcvd[i][1].json)) =>
              /\ pc[i] = "failed"
              /\ Len(sent[i]) = 1
              /\ Len(SettlementReqs(i)) = 0
        /\ Len(SettlementReqs(i)) > 0 =>
              (GotJson(i, 1) /\ Payable(rcvd[i][1].json))

UnpayableChallengesReceived ==
    /\ \E i \in Threads : rcvd[i] = <<[json |-> [payment |-> PayD]]>> /\ pc[i] = "failed"
    /\ \E i \in Threads : rcvd[i] = <<[json |-> [payment |-> PayE]]>> /\ pc[i] = "failed"

(***************************************************************************)
(* C14: concurrent invocations on one orchestrator are independent: no step *)
(* of an invocation writes the orchestrator's attributes or touches another *)
(* invocation; every request of an invocation carries its own prompt, every *)
(* payment_request and charge_id it sends are those of the challenge it     *)
(* received itself, what it returns is the text it received itself; and two *)
(* invocations with the same prompt and the same answers send the same      *)
(* requests and end the same way.                                           *)
(***************************************************************************)
Frame(i) == <<pc[i], locals[i], outcome[i], sent[i], rcvd[i], args[i]>>

OwnRequestsOnly(i) ==
    /\ \A k \in 1..Len(sent[i]) :
          LET req == sent[i][k] IN
          /\ IsCompletionReq(req) =>
                /\ req.json.messages = <<[role |-> "user", content |-> args[i]]>>
                /\ req.json.model = llm.model
                /\ req.json.max_tokens = llm.max_tokens
                /\ HasProof(req) =>
                      /\ GotJson(i, 1)
                      /\ Payable(rcvd[i][1].json)
                      /\ req.headers["X-Payment-Hash"]
                             = rcvd[i][1].json.payment.charge_id
          /\ IsSettlementReq(req) =>
                /\ GotJson(i, 1)
                /\ Payable(rcvd[i][1].json)
                /\ req.json.bolt11 = rcvd[i][1].json.payment.payment_request
                /\ req.headers["X-Api-Key"] = llm.lnbits_admin_key
    /\ outcome[i].kind = "return" =>
          LET last == rcvd[i][Len(rcvd[i])] IN
          /\ "json" \in DOMAIN last
          /\ HasText(last.json)
          /\ outcome[i].value = FirstText(last.json)

SameInputsSameOutputs ==
    \A i, j \in Threads :
        (args[i] = args[j] /\ rcvd[i] = rcvd[j] /\ pc[i] # "sleeping" /\ pc[j] # "sleeping") =>
            (sent[i] = sent[j] /\ outcome[i] = outcome[j] /\ pc[i] = pc[j])

IndependentInvocations ==
    /\ [](\A i \in Threads : OwnRequestsOnly(i))
    /\ []SameInputsSameOutputs
    /\ [][/\ llm # NoObject => llm' = llm
          /\ Cardinality({i \in Threads : Frame(i) # Frame(i)'}) <= 1]_vars

TwoPaidInvocationsInFlight ==
    \E i, j \in Threads :
        /\ pc[i] = "await2" /\ pc[j] = "await2"
        /\ args[i] # args[j]
        /\ HasProof(sent[i][3]) /\ HasProof(sent[j][3])
        /\ sent[i][3].headers["X-Payment-Hash"] = "c1"
        /\ sent[j][3].headers["X-Payment-Hash"] = "c2"

OneOutcome(i) ==
    /\ pc[i] = "done" <=> outcome[i].kind = "return"
    /\ pc[i] = "failed" <=> outcome[i].kind = "raise"
    /\ pc[i] \notin Terminal <=> outcome[i].kind = "none"
    /\ outcome[i].kind = "return" => DOMAIN outcome[i] = {"kind", "value"}
    /\ outcome[i].kind = "raise" => "value" \notin DOMAIN outcome[i]

EveryInvocationEnds ==
    /\ \A i \in Threads : (pc[i] # "idle") ~> (pc[i] \in Terminal)
    /\ [](\A i \in Threads : OneOutcome(i))
    /\ [][\A i \in Threads :
            pc[i] \in Terminal =>
                /\ pc'[i] = pc[i]
                /\ outcome'[i] = outcome[i]
                /\ sent'[i] = sent[i]
                /\ rcvd'[i] = rcvd[i]]_vars

BothOutcomesReached ==
    \E i, j \in Threads :
        /\ pc[i] = "done" /\ Len(sent[i]) = 3
        /\ pc[j] = "failed" /\ Len(sent[j]) = 3

(***************************************************************************)
(* C19: _generate(prompts) calls invoke once per prompt in list order, the  *)
(* next call beginning only when the previous one has returned; when all    *)
(* have returned it returns a list as long as prompts whose k-th element is *)
(* what the k-th call returned; when the k-th call raises, _generate raises *)
(* that error, returns no list, and sends no request for a later prompt,    *)
(* while the requests already sent (the settlements among them) remain.     *)
(***************************************************************************)
Started == Len(gen.called)

Requests(k) ==
    (gen.marks[k] + 1)..(IF k < Started THEN gen.marks[k + 1]
                                        ELSE Len(sent[Caller]))

OnePerPromptInOrder ==
    /\ Started <= Len(gen.prompts)
    /\ Len(gen.ended) = IF gen.state = "running" THEN Started - 1 ELSE Started
    /\ \A k \in 1..Started :
          /\ gen.called[k] = gen.prompts[k]
          /\ k < Started => gen.ended[k].kind = "return"
          /\ Requests(k) # {}
          /\ ~HasProof(sent[Caller][gen.marks[k] + 1])
          /\ \A j \in Requests(k) :
                IsCompletionReq(sent[Caller][j]) =>
                    sent[Caller][j].json.messages
                        = <<[role |-> "user", content |-> gen.prompts[k]]>>
    /\ gen.state = "running" => gen.outcome = NoOutcome
    /\ gen.state = "returned" =>
          /\ Started = Len(gen.prompts)
          /\ gen.outcome.kind = "return"
          /\ Len(gen.outcome.value) = Len(gen.prompts)
          /\ \A k \in 1..Started :
                /\ gen.ended[k].kind = "return"
                /\ gen.outcome.value[k] = gen.ended[k].value
    /\ gen.state = "raised" =>
          /\ Started >= 1
          /\ gen.ended[Started].kind = "raise"
          /\ gen.outcome = gen.ended[Started]
          /\ "value" \notin DOMAIN gen.outcome

GenerateInOrder ==
    /\ [](gen.state # "none" => OnePerPromptInOrder)
    /\ [][gen.state # "none" =>
            /\ Len(sent'[Caller]) >= Len(sent[Caller])
            /\ SubSeq(sent'[Caller], 1, Len(sent[Caller])) = sent[Caller]
            /\ gen'.prompts = gen.prompts
            /\ gen.state \in {"returned", "raised"} =>
                  gen' = gen /\ sent' = sent]_vars

FailedAfterPaidPrompt ==
    /\ gen.state = "raised"
    /\ Len(gen.prompts) = 3
    /\ Started = 2
    /\ gen.prompts[1] # gen.prompts[2]
    /\ \E j \in Requests(1) : IsSettlementReq(sent[Caller][j])

====
